---- MODULE Spec2Model ----
(***************************************************************************)
(* Model of QualityMonitoring.c: a supervisor (main) that opens one serial *)
(* port per configured source and starts one reader thread per port; each  *)
(* thread reads frames, parses them with sscanf("%s %f"), validates them,  *)
(* appends accepted readings to a shared CSV file and updates its own      *)
(* running statistics.                                                     *)
(*                                                                         *)
(* Text is modelled as sequences of one-character strings.  A float is     *)
(* modelled as a decimal fixed-point integer in units of 1/Scale, with two *)
(* distinguished encodings NaN and Inf; every input of the model has at    *)
(* most two fractional digits, for which the comparisons of the code       *)
(* against 0, 5, 25 and 1000 agree with exact decimal comparison.          *)
(***************************************************************************)
EXTENDS Integers, Sequences, FiniteSets, TLC

\* ------------------------------------------------------------------ bounds
\* Most fields (whitespace-separated tokens) in a frame of SpecParse.
MaxFields == 3
\* Most readings recorded in SpecStats.
MaxRecords == 3

\* ------------------------------------------------------- program constants
\* Fixed-point unit: values are integers counting 1/Scale (two fractional
\* digits, the precision log_to_csv prints with "%.2f").
Scale == 100
\* sensor.id is char id[10]: at most IdCap characters and the terminating NUL.
IdCap == 9
\* Encoding of a float NaN (float value).
NaN == 900000000
\* Encoding of a float infinity, larger than every finite value of the model.
Inf == 800000000
\* validate_data: the realistic range 0 .. 1000.
RangeLow == 0
RangeHigh == 1000

\* --------------------------------------------------------- float arithmetic
\* a < b on floats: every comparison with a NaN is false.
FLt(a, b) == a # NaN /\ b # NaN /\ a < b
\* a > b on floats.
FGt(a, b) == a # NaN /\ b # NaN /\ a > b
\* a + b on floats: NaN is absorbing.
FAdd(a, b) == IF a = NaN \/ b = NaN THEN NaN ELSE a + b

\* ------------------------------------------------------------------ text
Digits == <<"0", "1", "2", "3", "4", "5", "6", "7", "8", "9">>
IsDigit(c) == \E d \in 1..10 : Digits[d] = c
DigitVal(c) == (CHOOSE d \in 1..10 : Digits[d] = c) - 1
\* isspace() for the characters of the model.
IsSpace(c) == c \in {" ", "\n", "\t", "\r"}

RECURSIVE SkipWs(_, _)
\* Index of the first non-space character of s at or after i (Len(s)+1: none).
SkipWs(s, i) == IF i <= Len(s) /\ IsSpace(s[i]) THEN SkipWs(s, i + 1) ELSE i

RECURSIVE TokEnd(_, _)
\* Index just after the run of non-space characters of s that starts at i.
TokEnd(s, i) == IF i <= Len(s) /\ ~IsSpace(s[i]) THEN TokEnd(s, i + 1) ELSE i

RECURSIVE DigitsEnd(_, _)
\* Index just after the run of decimal digits of s that starts at i.
DigitsEnd(s, i) == IF i <= Len(s) /\ IsDigit(s[i]) THEN DigitsEnd(s, i + 1) ELSE i

RECURSIVE DigitsVal(_, _, _)
\* The number written by the digits s[i .. j-1] (0 for no digit).
DigitsVal(s, i, j) ==
    IF j <= i THEN 0 ELSE DigitsVal(s, i, j - 1) * 10 + DigitVal(s[j - 1])

\* The fraction digits s[i .. j-1] in units of 1/Scale: the first two digits.
FracVal(s, i, j) ==
    (IF i < j THEN DigitVal(s[i]) * 10 ELSE 0)
    + (IF i + 1 < j THEN DigitVal(s[i + 1]) ELSE 0)

\* s has the lower-case word w at index i.
HasWord(s, i, w) ==
    /\ i + Len(w) - 1 <= Len(s)
    /\ \A k \in 1..Len(w) : s[i + k - 1] = w[k]

\* The "%f" conversion at index i of s (leading white space already skipped):
\* the longest prefix that is an optionally signed decimal number, "nan" or
\* "inf".  ok: a number was converted; val: its value.
ScanFloat(s, i) ==
    LET n == Len(s)
        hasSign == i <= n /\ s[i] \in {"+", "-"}
        neg == hasSign /\ s[i] = "-"
        p == IF hasSign THEN i + 1 ELSE i
        d1 == DigitsEnd(s, p)
        hasDot == d1 <= n /\ s[d1] = "."
        d2 == IF hasDot THEN DigitsEnd(s, d1 + 1) ELSE d1
        nDigits == (d1 - p) + (IF hasDot THEN d2 - (d1 + 1) ELSE 0)
        mag == DigitsVal(s, p, d1) * Scale + FracVal(s, d1 + 1, d2)
    IN  IF HasWord(s, p, <<"n", "a", "n">>)
          THEN [ok |-> TRUE, val |-> NaN, next |-> p + 3]
        ELSE IF HasWord(s, p, <<"i", "n", "f">>)
          THEN [ok |-> TRUE, val |-> IF neg THEN -Inf ELSE Inf, next |-> p + 3]
        ELSE IF nDigits = 0
          THEN [ok |-> FALSE, val |-> 0, next |-> i]
        ELSE [ok |-> TRUE, val |-> IF neg THEN -mag ELSE mag, next |-> d2]

\* sscanf(buffer, "%s %f", sensor.id, &sensor.value): ret is the return
\* value (-1 is EOF), id the characters "%s" stores, value what "%f" stores
\* (old: the value left in place when "%f" converts nothing).
sscanf(buffer, old) ==
    LET i0 == SkipWs(buffer, 1)
        i1 == TokEnd(buffer, i0)
        f == ScanFloat(buffer, SkipWs(buffer, i1))
    IN  IF i0 > Len(buffer)
          THEN [ret |-> -1, id |-> old.id, value |-> old.value]
        ELSE IF ~f.ok
          THEN [ret |-> 1, id |-> SubSeq(buffer, i0, i1 - 1), value |-> old.value]
        ELSE [ret |-> 2, id |-> SubSeq(buffer, i0, i1 - 1), value |-> f.val]

\* What sensor.id holds after "%s" stored tok into char id[10]: tok itself
\* when it fits; a longer token overruns the array (undefined behaviour), and
\* the string read back is tok or tok followed by bytes of what lies behind.
StoredId(tok) ==
    IF Len(tok) <= IdCap THEN {tok} ELSE {tok, tok \o <<"?">>}

\* validate_data: 1 when the reading is valid, 0 otherwise.
validate_data(sensor) ==
    IF Len(sensor.id) = 0 THEN 0
    ELSE IF FLt(sensor.value, RangeLow * Scale) \/ FGt(sensor.value, RangeHigh * Scale)
      THEN 0
    ELSE 1

\* SensorStats stats = {5.0, 25.0, 0.0, -1000.0, 1000.0, 0}.
InitStats ==
    [min_limit |-> 5 * Scale, max_limit |-> 25 * Scale, total_value |-> 0,
     max_value |-> -1000 * Scale, min_value |-> 1000 * Scale, count |-> 0]

\* monitor_quality with the extrema chained by "else if": the minimum is
\* only looked at when the maximum was not updated.
monitor_quality_elseif(sensor, st) ==
    [st EXCEPT !.total_value = FAdd(@, sensor.value),
               !.count = @ + 1,
               !.max_value = IF FGt(sensor.value, @) THEN sensor.value ELSE @,
               !.min_value = IF ~FGt(sensor.value, st.max_value) /\ FLt(sensor.value, @)
                               THEN sensor.value ELSE @]

\* monitor_quality, the statistics update: the SensorStats after the call.
monitor_quality(sensor, st) ==
    [st EXCEPT !.total_value = FAdd(@, sensor.value),
               !.count = @ + 1,
               !.max_value = IF FGt(sensor.value, @) THEN sensor.value ELSE @,
               !.min_value = IF FLt(sensor.value, @) THEN sensor.value ELSE @]

\* The limit check with the limits themselves counted as out of range.
out_of_limits_inclusive(sensor, st) ==
    ~FGt(sensor.value, st.min_limit) \/ ~FLt(sensor.value, st.max_limit)

\* monitor_quality, the limit check: TRUE when the [ALERT] line is printed.
out_of_limits(sensor, st) ==
    FLt(sensor.value, st.min_limit) \/ FGt(sensor.value, st.max_limit)

RECURSIVE IntDigits(_)
\* The decimal digits of a natural number, as "%d" prints them.
IntDigits(n) ==
    IF n < 10 THEN <<Digits[n + 1]>>
    ELSE IntDigits(n \div 10) \o <<Digits[(n % 10) + 1]>>

\* "%.2f" of a float.
FormatValue(v) ==
    IF v = NaN THEN <<"n", "a", "n">>
    ELSE IF v = Inf THEN <<"i", "n", "f">>
    ELSE IF v = -Inf THEN <<"-", "i", "n", "f">>
    ELSE LET m == IF v < 0 THEN -v ELSE v
         IN  (IF v < 0 THEN <<"-">> ELSE <<>>)
             \o IntDigits(m \div Scale) \o <<".">>
             \o <<Digits[((m % Scale) \div 10) + 1], Digits[(m % 10) + 1]>>

\* fprintf(file, "%s,%s,%.2f\n", port_name, sensor->id, sensor->value).
Record(port_name, sensor) ==
    port_name \o <<",">> \o sensor.id \o <<",">> \o FormatValue(sensor.value) \o <<"\n">>

\* The file after rec is written at offset pos (pos bytes precede it).
WriteAt(f, pos, rec) ==
    SubSeq(f, 1, pos) \o rec \o SubSeq(f, pos + Len(rec) + 1, Len(f))

\* ------------------------------------------------------- the program state
\* const char *ports[] = {"COM3", "COM4", "COM5"}; num_ports.
NumPorts == 3
Ports == 1..NumPorts
ports ==
    << <<"C", "O", "M", "3">>, <<"C", "O", "M", "4">>, <<"C", "O", "M", "5">> >>

\* Most frames ReadFile delivers, over all ports, in one run of Spec.
MaxReads == 3

\* Frames the serial lines of Spec deliver.
FrameOk == <<"T", " ", "1", "5", ".", "0", "0">>
FrameAlert == <<"T", "E", "M", "P", " ", "3", "0", "\n">>
FrameBad == <<"B", "A", "D">>
FrameRange == <<"T", " ", "1", "5", "0", "0">>
SpecFrames == {FrameOk, FrameAlert, FrameBad, FrameRange}

VARIABLES
    mainpc,     \* main: "loop" (212-230), "wait" (233), "returned" (235)
    mi,         \* main: the loop index i, here 1 .. NumPorts + 1
    threads,    \* main: HANDLE threads[num_ports]: "uninit", "null" or "thread"
    hSerial,    \* per port: its serial handle is "none", "open" or "closed"
    closes,     \* per port: CloseHandle calls made on its serial handle
    wpc,        \* per port: its thread is "idle" (never started), at "read",
                \* "log", "write", "monitor", "close", or "done" (returned)
    sensor,     \* per thread: SensorData sensor
    stats,      \* per thread: SensorStats stats
    alerts,     \* per thread: [ALERT] lines printed
    invalid,    \* per thread: "[ERROR] Invalid data format" lines printed
    fpos,       \* per thread: offset at which its open FILE writes next (0: no FILE)
    file,       \* the bytes of sensor_data.csv
    logged,     \* the records whose fprintf/fclose completed, in that order
    reads,      \* frames delivered so far (bounded by MaxReads)
    readings,   \* per thread: "[port] Sensor: ..." lines printed (line 180)
    logerrs,    \* per thread: "[ERROR] Unable to open file" lines printed
    args,       \* per thread: the port whose SerialPortInfo it was given (0: none)
    shutdown,   \* the environment has asked the program to stop
    pbuffer,    \* SpecParse: buffer, the frame read
    psensor,    \* SpecParse: sensor
    pstate,     \* SpecParse: "read", then "accepted" or "rejected"
    sstats,     \* SpecStats: stats
    shist,      \* SpecStats: the values recorded so far
    salert      \* SpecStats: whether the last record printed an [ALERT]

progVars ==
    <<mainpc, mi, threads, hSerial, closes, wpc, sensor, stats, alerts,
      invalid, fpos, file, logged, reads, readings, logerrs, args, shutdown>>
parseVars == <<pbuffer, psensor, pstate>>
statVars == <<sstats, shist, salert>>
vars == <<progVars, parseVars, statVars>>

\* sensor before the first sscanf (its content is never read before a store).
NoSensor == [id |-> <<>>, value |-> 0]

\* The program at the start of main, whatever the environment asks of it.
InitRun ==
    /\ mainpc = "loop"
    /\ mi = 1
    /\ threads = [i \in Ports |-> "uninit"]
    /\ hSerial = [i \in Ports |-> "none"]
    /\ closes = [i \in Ports |-> 0]
    /\ wpc = [i \in Ports |-> "idle"]
    /\ sensor = [i \in Ports |-> NoSensor]
    /\ stats = [i \in Ports |-> InitStats]
    /\ alerts = [i \in Ports |-> 0]
    /\ invalid = [i \in Ports |-> 0]
    /\ fpos = [i \in Ports |-> 0]
    /\ file = <<>>
    /\ logged = <<>>
    /\ reads = 0
    /\ readings = [i \in Ports |-> 0]
    /\ logerrs = [i \in Ports |-> 0]
    /\ args = [i \in Ports |-> 0]

InitProg == InitRun /\ shutdown = FALSE

InitParseIdle == pbuffer = <<>> /\ psensor = NoSensor /\ pstate = "read"
InitStatsIdle == sstats = InitStats /\ shist = <<>> /\ salert = FALSE

Init == InitProg /\ InitParseIdle /\ InitStatsIdle

\* ------------------------------------------------------------------- main
SetupOutcomes == {"open_failed", "getstate_failed", "setstate_failed", "ok"}

\* setup_serial without the CloseHandle on its two late failure paths.
setup_serial_noclose(outcome) ==
    CASE outcome = "open_failed" -> [ret |-> "NULL", h |-> "none", closed |-> 0]
      [] outcome \in {"getstate_failed", "setstate_failed"} ->
            [ret |-> "NULL", h |-> "open", closed |-> 0]
      [] OTHER -> [ret |-> "handle", h |-> "open", closed |-> 0]

\* setup_serial: ret is what it returns ("NULL" or "handle"), h the state of
\* the port's handle afterwards and closed the CloseHandle calls it made.
setup_serial(outcome) ==
    CASE outcome = "open_failed" -> [ret |-> "NULL", h |-> "none", closed |-> 0]
      [] outcome \in {"getstate_failed", "setstate_failed"} ->
            [ret |-> "NULL", h |-> "closed", closed |-> 1]
      [] OTHER -> [ret |-> "handle", h |-> "open", closed |-> 0]

\* The for loop's i++ and test: the next iteration, or on to the wait.
LoopStep == mi' = mi + 1 /\ mainpc' = IF mi = NumPorts THEN "wait" ELSE "loop"

\* A failed iteration that leaves the loop (break) instead of continuing.
MainAcquireFail_break ==
    /\ mainpc = "loop"
    /\ \E outcome \in SetupOutcomes \ {"ok"} :
          /\ hSerial' = [hSerial EXCEPT ![mi] = setup_serial(outcome).h]
          /\ closes' = [closes EXCEPT ![mi] = @ + setup_serial(outcome).closed]
    /\ mi' = mi + 1
    /\ mainpc' = "wait"
    /\ UNCHANGED <<threads, wpc, sensor, stats, alerts, invalid, fpos, file,
                   logged, reads>>
    /\ UNCHANGED <<parseVars, statVars, shutdown, readings, logerrs, args>>

\* One iteration of main's loop in which setup_serial returns NULL: the
\* port is skipped (continue) and threads[i] is left as it was.
MainAcquireFail ==
    /\ mainpc = "loop"
    /\ \E outcome \in SetupOutcomes \ {"ok"} :
          /\ hSerial' = [hSerial EXCEPT ![mi] = setup_serial(outcome).h]
          /\ closes' = [closes EXCEPT ![mi] = @ + setup_serial(outcome).closed]
    /\ LoopStep
    /\ UNCHANGED <<threads, wpc, sensor, stats, alerts, invalid, fpos, file,
                   logged, reads>>
    /\ UNCHANGED <<parseVars, statVars, shutdown, readings, logerrs, args>>

\* A failed thread creation that forgets the CloseHandle.
MainThreadFail_leak ==
    /\ mainpc = "loop"
    /\ threads' = [threads EXCEPT ![mi] = "null"]
    /\ hSerial' = [hSerial EXCEPT ![mi] = setup_serial("ok").h]
    /\ LoopStep
    /\ UNCHANGED <<closes, wpc, sensor, stats, alerts, invalid, fpos, file,
                   logged, reads>>
    /\ UNCHANGED <<parseVars, statVars, shutdown, readings, logerrs, args>>

\* One iteration in which setup_serial succeeds and _beginthreadex returns
\* 0: threads[i] is NULL, and main closes the handle and frees port_info.
MainThreadFail ==
    /\ mainpc = "loop"
    /\ threads' = [threads EXCEPT ![mi] = "null"]
    /\ hSerial' = [hSerial EXCEPT ![mi] = "closed"]
    /\ closes' = [closes EXCEPT ![mi] = @ + 1]
    /\ LoopStep
    /\ UNCHANGED <<wpc, sensor, stats, alerts, invalid, fpos, file, logged, reads>>
    /\ UNCHANGED <<parseVars, statVars, shutdown, readings, logerrs, args>>

\* A thread started on the port_info of the first port instead of its own.
MainThreadStart_shared ==
    /\ mainpc = "loop"
    /\ threads' = [threads EXCEPT ![mi] = "thread"]
    /\ hSerial' = [hSerial EXCEPT ![mi] = setup_serial("ok").h]
    /\ args' = [args EXCEPT ![mi] = 1]
    /\ wpc' = [wpc EXCEPT ![mi] = "read"]
    /\ LoopStep
    /\ UNCHANGED <<closes, sensor, stats, alerts, invalid, fpos, file, logged, reads>>
    /\ UNCHANGED <<parseVars, statVars, shutdown, readings, logerrs>>

\* One iteration in which setup_serial and _beginthreadex succeed: the
\* thread of port i starts at the top of its while loop, with the
\* port_info malloc'ed in this iteration as its argument.
MainThreadStart ==
    /\ mainpc = "loop"
    /\ threads' = [threads EXCEPT ![mi] = "thread"]
    /\ hSerial' = [hSerial EXCEPT ![mi] = setup_serial("ok").h]
    /\ args' = [args EXCEPT ![mi] = mi]
    /\ wpc' = [wpc EXCEPT ![mi] = "read"]
    /\ LoopStep
    /\ UNCHANGED <<closes, sensor, stats, alerts, invalid, fpos, file, logged, reads>>
    /\ UNCHANGED <<parseVars, statVars, shutdown, readings, logerrs>>

\* main's return: printf("All threads finished.") and return 0, which ends
\* the process and with it every thread still running.
MainReturn ==
    /\ mainpc' = "returned"
    /\ UNCHANGED <<mi, threads, hSerial, closes, wpc, sensor, stats, alerts,
                   invalid, fpos, file, logged, reads>>
    /\ UNCHANGED <<parseVars, statVars, shutdown, readings, logerrs, args>>

\* WaitForMultipleObjects(num_ports, threads, TRUE, INFINITE) returns
\* WAIT_FAILED at once: an entry of threads is NULL, or was never assigned
\* and holds a value that is no handle.  The return value is not looked at.
MainWaitFailed ==
    /\ mainpc = "wait"
    /\ \E i \in Ports : threads[i] \in {"null", "uninit"}
    /\ MainReturn

\* WaitForMultipleObjects returns because every object is signalled: every
\* thread handle in threads is of a thread that returned (an entry never
\* assigned may hold the value of a signalled object).
MainWaitDone ==
    /\ mainpc = "wait"
    /\ \A i \in Ports : threads[i] # "null"
    /\ \A i \in Ports : threads[i] = "thread" => wpc[i] = "done"
    /\ MainReturn

\* ------------------------------------------------------ read_serial_thread
\* The process is running: once main has returned no thread takes a step.
Alive == mainpc # "returned"

\* The outcomes of sscanf on buffer: its return value and sensor afterwards.
Scanned(buffer, old) ==
    LET r == sscanf(buffer, old)
    IN  { [ret |-> r.ret, sensor |-> [id |-> d, value |-> r.value]] :
            d \in IF r.ret >= 1 THEN StoredId(r.id) ELSE {old.id} }

\* The condition of line 179: sscanf(...) == 2 && validate_data(&sensor).
FrameAccepted(sc) == sc.ret = 2 /\ validate_data(sc.sensor) = 1

\* An accepted frame whose reading is out of limits is not logged.
Accepted_alert_unlogged(i, s) ==
    /\ sensor' = [sensor EXCEPT ![i] = s]
    /\ readings' = [readings EXCEPT ![i] = @ + 1]
    /\ wpc' = [wpc EXCEPT ![i] =
                 IF out_of_limits(s, stats[i]) THEN "monitor" ELSE "log"]
    /\ UNCHANGED <<stats, alerts, invalid>>

\* An accepted frame recorded in the statistics before it is logged.
Accepted_recorded(i, s) ==
    /\ sensor' = [sensor EXCEPT ![i] = s]
    /\ readings' = [readings EXCEPT ![i] = @ + 1]
    /\ stats' = [stats EXCEPT ![i] = monitor_quality(s, @)]
    /\ wpc' = [wpc EXCEPT ![i] = "log"]
    /\ UNCHANGED <<alerts, invalid>>

\* The branch taken for an accepted frame: the reading is printed and the
\* thread goes on to log_to_csv.
Accepted(i, s) ==
    /\ sensor' = [sensor EXCEPT ![i] = s]
    /\ readings' = [readings EXCEPT ![i] = @ + 1]
    /\ wpc' = [wpc EXCEPT ![i] = "log"]
    /\ UNCHANGED <<stats, alerts, invalid>>

\* A rejection that still falls into monitor_quality.
Rejected_monitored(i, s) ==
    /\ sensor' = [sensor EXCEPT ![i] = s]
    /\ invalid' = [invalid EXCEPT ![i] = @ + 1]
    /\ stats' = [stats EXCEPT ![i] = monitor_quality(s, @)]
    /\ UNCHANGED <<wpc, alerts, readings>>

\* The else branch: "[ERROR] Invalid data format" is printed, and after the
\* Sleep the thread is back at ReadFile.
Rejected(i, s) ==
    /\ sensor' = [sensor EXCEPT ![i] = s]
    /\ invalid' = [invalid EXCEPT ![i] = @ + 1]
    /\ UNCHANGED <<wpc, stats, alerts, readings>>

\* ReadFile on port_info->hSerial succeeds with one of frames, which is
\* parsed and validated.
ReadFrameOf(i, frames) ==
    /\ Alive
    /\ wpc[i] = "read"
    /\ hSerial[args[i]] = "open"
    /\ reads < MaxReads
    /\ reads' = reads + 1
    /\ \E buffer \in frames :
          \E sc \in Scanned(buffer, sensor[i]) :
              IF FrameAccepted(sc) THEN Accepted(i, sc.sensor)
                                   ELSE Rejected(i, sc.sensor)
    /\ UNCHANGED <<mainpc, mi, threads, hSerial, closes, fpos, file, logged>>
    /\ UNCHANGED <<parseVars, statVars, shutdown, logerrs, args>>

\* A loop that looks at the shutdown request before it reads.
ReadFrame_cancellable(i) == ~shutdown /\ ReadFrameOf(i, SpecFrames)

\* ReadFile succeeds with a frame of SpecFrames.
ReadFrame(i) == ReadFrameOf(i, SpecFrames)

\* ReadFile fails: the error is printed and the loop is left (break).
ReadFail(i) ==
    /\ Alive
    /\ wpc[i] = "read"
    /\ wpc' = [wpc EXCEPT ![i] = "close"]
    /\ UNCHANGED <<mainpc, mi, threads, hSerial, closes, sensor, stats, alerts,
                   invalid, fpos, file, logged, reads>>
    /\ UNCHANGED <<parseVars, statVars, shutdown, readings, logerrs, args>>

\* A failed fopen that gives the reading up: the thread goes straight back
\* to ReadFile.
LogOpenFail_abort(i) ==
    /\ Alive
    /\ wpc[i] = "log"
    /\ logerrs' = [logerrs EXCEPT ![i] = @ + 1]
    /\ wpc' = [wpc EXCEPT ![i] = "read"]
    /\ UNCHANGED <<mainpc, mi, threads, hSerial, closes, sensor, stats, alerts,
                   invalid, fpos, file, logged, reads>>
    /\ UNCHANGED <<parseVars, statVars, shutdown, readings, args>>

\* log_to_csv, fopen fails: the error is printed and log_to_csv returns.
LogOpenFail(i) ==
    /\ Alive
    /\ wpc[i] = "log"
    /\ logerrs' = [logerrs EXCEPT ![i] = @ + 1]
    /\ wpc' = [wpc EXCEPT ![i] = "monitor"]
    /\ UNCHANGED <<mainpc, mi, threads, hSerial, closes, sensor, stats, alerts,
                   invalid, fpos, file, logged, reads>>
    /\ UNCHANGED <<parseVars, statVars, shutdown, readings, args>>

\* log_to_csv, fopen(filename, "a") succeeds, fprintf fills the FILE's
\* buffer, and fclose starts to flush it: an append-mode FILE first moves
\* its own file pointer to the current end of the file.  Nothing in
\* log_to_csv keeps another thread out between this and the write.
LogOpen(i) ==
    /\ Alive
    /\ wpc[i] = "log"
    /\ fpos' = [fpos EXCEPT ![i] = Len(file)]
    /\ wpc' = [wpc EXCEPT ![i] = "write"]
    /\ UNCHANGED <<mainpc, mi, threads, hSerial, closes, sensor, stats, alerts,
                   invalid, file, logged, reads>>
    /\ UNCHANGED <<parseVars, statVars, shutdown, readings, logerrs, args>>

\* log_to_csv, fclose writes the buffered record at the FILE's pointer and
\* the FILE is gone.
LogWrite(i) ==
    /\ Alive
    /\ wpc[i] = "write"
    /\ file' = WriteAt(file, fpos[i], Record(ports[args[i]], sensor[i]))
    /\ logged' = Append(logged, Record(ports[args[i]], sensor[i]))
    /\ fpos' = [fpos EXCEPT ![i] = 0]
    /\ wpc' = [wpc EXCEPT ![i] = "monitor"]
    /\ UNCHANGED <<mainpc, mi, threads, hSerial, closes, sensor, stats, alerts,
                   invalid, reads>>
    /\ UNCHANGED <<parseVars, statVars, shutdown, readings, logerrs, args>>

\* monitor_quality, then Sleep and back to ReadFile.
Monitor(i) ==
    /\ Alive
    /\ wpc[i] = "monitor"
    /\ stats' = [stats EXCEPT ![i] = monitor_quality(sensor[i], @)]
    /\ alerts' = [alerts EXCEPT ![i] =
                    IF out_of_limits(sensor[i], stats[i]) THEN @ + 1 ELSE @]
    /\ wpc' = [wpc EXCEPT ![i] = "read"]
    /\ UNCHANGED <<mainpc, mi, threads, hSerial, closes, sensor, invalid, fpos,
                   file, logged, reads>>
    /\ UNCHANGED <<parseVars, statVars, shutdown, readings, logerrs, args>>

\* After the loop: CloseHandle(port_info->hSerial), free, return 0.
Close(i) ==
    /\ Alive
    /\ wpc[i] = "close"
    /\ hSerial' = [hSerial EXCEPT ![args[i]] = "closed"]
    /\ closes' = [closes EXCEPT ![args[i]] = @ + 1]
    /\ wpc' = [wpc EXCEPT ![i] = "done"]
    /\ UNCHANGED <<mainpc, mi, threads, sensor, stats, alerts, invalid, fpos,
                   file, logged, reads>>
    /\ UNCHANGED <<parseVars, statVars, shutdown, readings, logerrs, args>>

Worker(i) ==
    \/ ReadFrame(i)
    \/ ReadFail(i)
    \/ LogOpenFail(i)
    \/ LogOpen(i)
    \/ LogWrite(i)
    \/ Monitor(i)
    \/ Close(i)

Next ==
    \/ MainThreadStart
    \/ MainThreadFail
    \/ MainAcquireFail
    \/ MainWaitFailed
    \/ MainWaitDone
    \/ \E i \in Ports : Worker(i)

Spec == Init /\ [][Next]_vars

\* ------------------------------ SpecCancel: the program asked to shut down
\* The environment asks the program to stop before main's loop begins, and
\* the request stays: the program has no statement that reads or clears it.
InitCancel == InitRun /\ shutdown = TRUE /\ InitParseIdle /\ InitStatsIdle

SpecCancel == InitCancel /\ [][Next]_vars

\* --------------------------- SpecNan: a port may also deliver a "nan" value
\* A frame whose value field is the text sscanf's %f reads as a NaN.
FrameNan == <<"T", " ", "n", "a", "n">>
NanFrames == SpecFrames \cup {FrameNan}

\* ReadFile succeeds with a frame of NanFrames.
ReadNanFrame(i) == ReadFrameOf(i, NanFrames)

WorkerNan(i) ==
    \/ ReadNanFrame(i)
    \/ ReadFail(i)
    \/ LogOpenFail(i)
    \/ LogOpen(i)
    \/ LogWrite(i)
    \/ Monitor(i)
    \/ Close(i)

NextNan ==
    \/ MainThreadStart
    \/ MainThreadFail
    \/ MainAcquireFail
    \/ MainWaitFailed
    \/ MainWaitDone
    \/ \E i \in Ports : WorkerNan(i)

SpecNan == Init /\ [][NextNan]_vars

\* ------------------------------------------- SpecParse: one frame is parsed
\* Tokens the frames of SpecParse are made of: identifiers (one longer than
\* sensor.id holds) and numeric fields in, at and around the valid range.
TokTemp == <<"T", "E", "M", "P">>
TokLong == <<"A", "B", "C", "D", "E", "F", "G", "H", "I", "J", "K", "L">>
ParseTokens ==
    { TokTemp, TokLong,
      <<"0">>, <<"1", "0", "0", "0">>, <<"1", "0", "0", "0", ".", "0", "1">>,
      <<"-", "0", ".", "0", "1">>, <<"2", "2", ".", "5", "7">>,
      <<"1", "2", "a", "b", "c">>, <<"n", "a", "n">>, <<"i", "n", "f">>,
      <<".", "5">>, <<"+", "7">> }

RECURSIVE Join(_, _)
\* The tokens of ts, in order, separated by sep.
Join(ts, sep) ==
    IF Len(ts) = 0 THEN <<>>
    ELSE IF Len(ts) = 1 THEN ts[1]
    ELSE ts[1] \o sep \o Join(Tail(ts), sep)

\* Frames of at most MaxFields tokens, with and without surrounding space.
ParseFrames ==
    { lead \o Join(ts, sep) \o trail :
        ts \in UNION { [1..k -> ParseTokens] : k \in 0..MaxFields },
        sep \in { <<" ">> },
        lead \in { <<>>, <<" ">> },
        trail \in { <<>>, <<"\n">> } }

InitParse ==
    /\ InitProg
    /\ InitStatsIdle
    /\ pbuffer \in ParseFrames
    /\ psensor = NoSensor
    /\ pstate = "read"

\* Line 179 on the frame in pbuffer: sscanf, then validate_data.
ParseFrame ==
    /\ pstate = "read"
    /\ \E sc \in Scanned(pbuffer, psensor) :
          /\ psensor' = sc.sensor
          /\ pstate' = IF FrameAccepted(sc) THEN "accepted" ELSE "rejected"
    /\ UNCHANGED <<pbuffer, progVars, statVars>>

NextParse == ParseFrame

SpecParse == InitParse /\ [][NextParse]_vars

\* ------------------------- SpecStats: readings recorded into fresh statistics
\* Values of validated readings: the range ends, the limits and their
\* neighbours.
StatValues ==
    { 0, 499, 5 * Scale, 501, 15 * Scale, 2499, 25 * Scale, 2501, 1000 * Scale }

InitStat ==
    /\ InitProg
    /\ InitParseIdle
    /\ InitStatsIdle

\* monitor_quality on one more validated reading.
RecordReading ==
    /\ Len(shist) < MaxRecords
    /\ \E v \in StatValues :
          LET s == [id |-> TokTemp, value |-> v]
          IN  /\ validate_data(s) = 1
              /\ sstats' = monitor_quality(s, sstats)
              /\ salert' = out_of_limits(s, sstats)
              /\ shist' = Append(shist, v)
    /\ UNCHANGED <<progVars, parseVars>>

NextStat == RecordReading

SpecStats == InitStat /\ [][NextStat]_vars

\* ================================================================= claims
\* A thread that main started and that has not returned.
Running(i) == wpc[i] \notin {"idle", "done"}
\* main's loop is past port i.
Attempted(i) == i < mi

\* C1: main passes its wait, reports completion and returns only after
\* every thread it started has returned, whatever the outcome of each port
\* at startup: in no state has main returned while a started thread has not.
C1_ReturnOnlyAfterWorkers ==
    mainpc = "returned" => \A i \in Ports : ~Running(i)

\* C2: a startup failure of one port does not end the startup of the others:
\* main leaves its loop only when every port had its iteration, and every
\* port whose setup_serial and _beginthreadex succeeded has a started thread.
C2_AllSourcesAttempted ==
    /\ mainpc # "loop" => mi = NumPorts + 1
    /\ mainpc = "loop" => mi \in Ports
    /\ \A i \in Ports :
          /\ Attempted(i) /\ threads[i] = "thread" => wpc[i] # "idle"
          /\ ~Attempted(i) => wpc[i] = "idle" /\ threads[i] = "uninit"

\* C2 witness: the first port failed to open, the second failed at thread
\* creation, and the third has a running thread.
C2_Witness ==
    /\ threads[1] = "uninit" /\ Attempted(1)
    /\ threads[2] = "null"
    /\ threads[3] = "thread" /\ Running(3)

\* C3: every serial handle that was opened is closed exactly once: no handle
\* is closed twice, a handle is closed exactly when one CloseHandle was made
\* on it, no thread that returned left its handle open, and no port whose
\* thread was never started keeps an open handle.
C3_ReleasedExactlyOnce ==
    \A i \in Ports :
        /\ closes[i] <= 1
        /\ hSerial[i] = "closed" <=> closes[i] = 1
        /\ hSerial[i] = "none" => closes[i] = 0
        /\ wpc[i] = "done" => hSerial[i] = "closed"
        /\ Attempted(i) /\ wpc[i] = "idle" => hSerial[i] # "open"
        /\ Running(i) /\ wpc[i] # "close" => hSerial[i] = "open"

\* C3 witness: one thread closed its handle after a failed read, and main
\* closed the handle of a port whose thread could not be created.
C3_Witness ==
    \E i, j \in Ports :
        /\ wpc[i] = "done" /\ closes[i] = 1
        /\ threads[j] = "null" /\ closes[j] = 1

\* C4: a step in which a thread rejects a frame (it prints "Invalid data
\* format") changes neither its statistics nor the file, prints no alert,
\* and leaves the thread at its next ReadFile.
C4_RejectedFrameNoEffect ==
    [][\A i \in Ports :
          invalid'[i] # invalid[i] =>
              /\ stats' = stats
              /\ file' = file /\ logged' = logged /\ fpos' = fpos
              /\ alerts' = alerts
              /\ wpc[i] = "read" /\ wpc'[i] = "read"]_vars

\* C4 witness: a thread recorded one reading, rejected two frames (so it
\* read again after a rejection) and is at ReadFile, its statistics those of
\* the one reading.
C4_Witness ==
    \E i \in Ports :
        /\ invalid[i] >= 2
        /\ stats[i].count = 1
        /\ wpc[i] = "read"

RECURSIVE Decomposes(_, _)
\* f is the records logged[k], k in S, one after the other in some order.
Decomposes(f, S) ==
    IF S = {} THEN f = <<>>
    ELSE \E k \in S :
            /\ Len(logged[k]) <= Len(f)
            /\ SubSeq(f, 1, Len(logged[k])) = logged[k]
            /\ Decomposes(SubSeq(f, Len(logged[k]) + 1, Len(f)), S \ {k})

\* C5: the file holds exactly the complete records that were appended, in
\* some order: no record is lost, cut or mixed with another.
C5_SinkHoldsCompleteRecords == Decomposes(file, 1..Len(logged))

RECURSIVE SumOf(_)
\* The sum of the numbers of a sequence.
SumOf(q) == IF Len(q) = 0 THEN 0 ELSE q[1] + SumOf(Tail(q))
\* The set of the elements of a sequence.
Range(q) == {q[k] : k \in 1..Len(q)}
MinOf(q) == CHOOSE m \in Range(q) : \A x \in Range(q) : m <= x
MaxOf(q) == CHOOSE m \in Range(q) : \A x \in Range(q) : m >= x

\* C6: after N valid readings (values in 0 .. 1000, ends included) were
\* recorded into fresh statistics, count is N, total_value is the sum of
\* the values, min_value their minimum and max_value their maximum.
C6_StatsAreAggregates ==
    /\ sstats.count = Len(shist)
    /\ sstats.total_value = SumOf(shist)
    /\ Len(shist) >= 1 =>
          /\ sstats.min_value = MinOf(shist)
          /\ sstats.max_value = MaxOf(shist)

\* C6 witness: the readings 1000 and then 0 were recorded, the two ends of
\* the valid range.
C6_Witness ==
    /\ Len(shist) = 2
    /\ shist[1] = RangeHigh * Scale /\ shist[2] = RangeLow * Scale
    /\ sstats.count = 2

\* C7: recording a valid reading prints an alert exactly when its value is
\* below 5.0 or above 25.0, the limits set when the thread starts; a value
\* equal to a limit prints none.
C7_AlertIffOutsideLimits ==
    /\ sstats.min_limit = 5 * Scale /\ sstats.max_limit = 25 * Scale
    /\ Len(shist) >= 1 =>
          (salert <=> (shist[Len(shist)] < 5 * Scale \/ shist[Len(shist)] > 25 * Scale))

\* C7 witness: readings equal to each limit were recorded without an alert
\* after one just outside that was alerted.
C7_Witness ==
    /\ Len(shist) = 3
    /\ shist[1] = 25 * Scale + 1 /\ shist[2] = 5 * Scale /\ shist[3] = 25 * Scale
    /\ ~salert

RECURSIVE FieldsFrom(_, _)
\* The whitespace-separated fields of s from index i on.
FieldsFrom(s, i) ==
    IF SkipWs(s, i) > Len(s) THEN <<>>
    ELSE <<SubSeq(s, SkipWs(s, i), TokEnd(s, SkipWs(s, i)) - 1)>>
         \o FieldsFrom(s, TokEnd(s, SkipWs(s, i)))
Fields(s) == FieldsFrom(s, 1)

\* The whole of token t is one number.
IsValueToken(t) == ScanFloat(t, 1).ok /\ ScanFloat(t, 1).next = Len(t) + 1
ValueOf(t) == ScanFloat(t, 1).val
\* The whole of token t is one finite number.
IsNumericToken(t) == IsValueToken(t) /\ ValueOf(t) \notin {NaN, Inf, -Inf}

\* C8: a frame is accepted only if it is exactly two whitespace-separated
\* fields, the second a numeric token: one field, three or more fields or a
\* non-numeric second field are never accepted.
C8_AcceptedOnlyTwoFields ==
    pstate = "accepted" =>
        /\ Len(Fields(pbuffer)) = 2
        /\ IsNumericToken(Fields(pbuffer)[2])

\* C9: a frame of an identifier and a value v is accepted exactly when
\* 0 <= v <= 1000, and the accepted reading has exactly that identifier and
\* that value.
C9_AcceptedIffInRange ==
    (pstate # "read" /\ Len(Fields(pbuffer)) = 2 /\ IsValueToken(Fields(pbuffer)[2])) =>
        LET v == ValueOf(Fields(pbuffer)[2])
            inRange == v # NaN /\ RangeLow * Scale <= v /\ v <= RangeHigh * Scale
        IN  /\ pstate = "accepted" <=> inRange
            /\ pstate = "accepted" =>
                  psensor.id = Fields(pbuffer)[1] /\ psensor.value = v

\* A step in which port i fails: its thread's ReadFile fails, its thread
\* ends, or main's iteration for it starts no thread.
FailureStep(i) ==
    \/ wpc[i] = "read" /\ wpc'[i] = "close"
    \/ wpc[i] = "close" /\ wpc'[i] = "done"
    \/ mi = i /\ mi' = i + 1 /\ threads'[i] # "thread"

\* C10: a failure of one port never affects another: a step in which one
\* port fails leaves the statistics, the handle and the position of every
\* other thread as they were, and a thread that was started and has not
\* itself left its loop is never stopped (the process is still running).
C10_FailureIsolated ==
    [][/\ \A i \in Ports :
             FailureStep(i) =>
                 \A j \in Ports \ {i} :
                     stats'[j] = stats[j] /\ hSerial'[j] = hSerial[j] /\ wpc'[j] = wpc[j]
       /\ \A j \in Ports : (Running(j) /\ wpc[j] # "close") => Alive']_vars

LoggedBy(p) ==
    Cardinality({ k \in 1..Len(logged) :
                    SubSeq(logged[k], 1, Len(ports[p])) = ports[p] })

\* C12: each source's count never decreases and changes only by +1, on a
\* step of the owning worker that follows a successful validation, a step
\* that is not of main or of another worker; and whenever count >= 1 the
\* observed minimum is at most the observed maximum.
C12_CountAndExtrema ==
    [][\A i \in Ports :
          /\ stats'[i].count >= stats[i].count
          /\ stats'[i].count # stats[i].count =>
                /\ stats'[i].count = stats[i].count + 1
                /\ wpc[i] = "monitor" /\ wpc'[i] = "read"
                /\ readings[i] = stats[i].count + 1
                /\ validate_data(sensor[i]) = 1
                /\ mainpc' = mainpc /\ mi' = mi
                /\ \A j \in Ports \ {i} : wpc'[j] = wpc[j]
          /\ stats'[i].count >= 1 =>
                ~FGt(stats'[i].min_value, stats'[i].max_value)]_vars
\* The calls of log_to_csv thread i has come back from: its records
\* appended and its failures to open the file.
Appends(i) == LoggedBy(i) + logerrs[i]

\* C13 as stated: the statistics update comes before the reading is
\* forwarded to the sink, so every appended record is of a reading its
\* source's statistics already count.
C13_RecordThenPersist == \A i \in Ports : LoggedBy(i) <= stats[i].count

\* C13, amended: the order is persist, then record, then alert.  No
\* reading is counted in its source's statistics, or alerted, before
\* log_to_csv has returned for it: the statistics never count more readings
\* than the thread has finished appends, and they are one behind exactly
\* while the thread is between log_to_csv and monitor_quality.
C13_PersistThenRecord ==
    \A i \in Ports :
        /\ stats[i].count <= Appends(i)
        /\ alerts[i] <= stats[i].count
        /\ Appends(i) = stats[i].count + (IF wpc[i] = "monitor" THEN 1 ELSE 0)

\* A record of a reading out of limits is in the file while the statistics
\* of its source count nothing and no alert is printed yet; and another
\* thread has gone through both steps.
C13_Witness ==
    \E i, j \in Ports :
        /\ wpc[i] = "monitor" /\ LoggedBy(i) = 1 /\ logerrs[i] = 0
        /\ stats[i].count = 0 /\ alerts[i] = 0
        /\ out_of_limits(sensor[i], stats[i])
        /\ wpc[j] = "read" /\ LoggedBy(j) = 1 /\ stats[j].count = 1
\* Thread i is at ReadFile, about to issue a read, or past its loop.
BetweenFrames(i) == wpc[i] \in {"read", "close", "done"}

\* C14: within one source processing is sequential and complete.  Whenever
\* a worker issues a read, every frame it has accepted so far has had
\* exactly one statistics update and exactly one append request, readings
\* that raised an alert included; in between, exactly one accepted frame
\* is being processed.
C14_SequentialAndComplete ==
    \A i \in Ports :
        /\ BetweenFrames(i) =>
              /\ stats[i].count = readings[i]
              /\ Appends(i) = readings[i]
        /\ ~BetweenFrames(i) /\ wpc[i] # "idle" =>
              /\ stats[i].count = readings[i] - 1
              /\ Appends(i) \in {readings[i] - 1, readings[i]}
        /\ wpc[i] = "idle" => readings[i] = 0 /\ stats[i].count = 0

\* A worker is back at ReadFile after two accepted frames, one of which
\* raised an alert: both are counted and both are in the file.
C14_Witness ==
    \E i \in Ports :
        /\ wpc[i] = "read" /\ readings[i] = 2 /\ stats[i].count = 2
        /\ alerts[i] = 1 /\ LoggedBy(i) = 2
\* C15: a failure to open the sink file is not fatal and rolls nothing
\* back.  The step on which fopen fails changes no statistics, closes no
\* handle and leaves the thread before monitor_quality with its reading as
\* it was; and the only step out of there records that reading in count,
\* sum and extrema, checks it for an alert, and takes the thread back to
\* ReadFile.
C15_PersistFailureNotFatal ==
    [][\A i \in Ports :
          /\ logerrs'[i] # logerrs[i] =>
                /\ logerrs'[i] = logerrs[i] + 1
                /\ wpc'[i] = "monitor"
                /\ sensor'[i] = sensor[i]
                /\ stats' = stats /\ alerts' = alerts
                /\ hSerial' = hSerial /\ mainpc' = mainpc
          /\ wpc[i] = "monitor" /\ wpc'[i] # "monitor" =>
                /\ wpc'[i] = "read"
                /\ stats'[i] = monitor_quality(sensor[i], stats[i])
                /\ alerts'[i] = alerts[i] +
                      (IF out_of_limits(sensor[i], stats[i]) THEN 1 ELSE 0)]_vars

\* The only append of a thread failed, on a reading out of limits: the
\* reading is counted, the alert was printed, nothing of the thread is in
\* the file, and the thread is back at ReadFile with its handle open.
C15_Witness ==
    \E i \in Ports :
        /\ logerrs[i] = 1 /\ LoggedBy(i) = 0 /\ readings[i] = 1
        /\ stats[i].count = 1 /\ stats[i].total_value = sensor[i].value
        /\ stats[i].max_value = sensor[i].value
        /\ alerts[i] = 1
        /\ wpc[i] = "read" /\ hSerial[i] = "open" /\ Alive
\* Thread i is in its while loop.
InLoop(i) == wpc[i] \in {"read", "log", "write", "monitor"}

\* A step takes thread i out of its loop only from ReadFile and with no
\* frame delivered (the read failed); out of the loop the thread reads
\* nothing more and can only go on to its return.
LoopLeftOnlyOnReadFailure ==
    \A i \in Ports :
        /\ InLoop(i) /\ wpc'[i] # wpc[i] /\ wpc'[i] \notin {"read", "log", "write", "monitor"} =>
              wpc[i] = "read" /\ wpc'[i] = "close" /\ reads' = reads
        /\ wpc[i] \in {"close", "done"} =>
              /\ wpc'[i] \in {"close", "done"}
              /\ readings'[i] = readings[i] /\ invalid'[i] = invalid[i]
        /\ wpc[i] = "close" /\ wpc'[i] = "done" => hSerial'[args[i]] = "closed"

\* C16: a worker terminates if and only if a transport read fails.  It
\* leaves its loop only on a failed read and reads nothing afterwards;
\* after a failed read nothing keeps it from reaching its return; and
\* while its reads succeed nothing stops it: the process does not end
\* under a thread that is in its loop or on its way out of it.
C16_TerminatesIffReadFails ==
    [][/\ LoopLeftOnlyOnReadFailure
       /\ \A i \in Ports : wpc[i] = "close" => Alive'
       /\ \A i \in Ports : InLoop(i) => Alive']_vars
\* setup_serial returned NULL for port i: main is past it and its entry of
\* threads was never assigned.
AcquisitionFailed(i) == Attempted(i) /\ threads[i] = "uninit"

\* C17: when setup_serial fails for a port (CreateFile, GetCommState or
\* SetCommState fails) no thread is started for it: none has its port_info,
\* no read is issued and no frame accepted or rejected for it, its
\* statistics are never updated, no record of it is in the file, and its
\* handle is not left open (it was never opened, or was closed once).
C17_NoWorkerAfterFailedAcquisition ==
    \A i \in Ports :
        AcquisitionFailed(i) =>
            /\ wpc[i] = "idle" /\ args[i] = 0
            /\ \A j \in Ports : args[j] # i
            /\ readings[i] = 0 /\ invalid[i] = 0
            /\ stats[i] = InitStats /\ alerts[i] = 0
            /\ LoggedBy(i) = 0 /\ logerrs[i] = 0
            /\ hSerial[i] \in {"none", "closed"}
            /\ closes[i] = (IF hSerial[i] = "closed" THEN 1 ELSE 0)

\* One port failed at CreateFile, one after it was opened, and the thread
\* of the third has a reading counted and in the file.
C17_Witness ==
    \E i, j, k \in Ports :
        /\ AcquisitionFailed(i) /\ hSerial[i] = "none"
        /\ AcquisitionFailed(j) /\ hSerial[j] = "closed" /\ closes[j] = 1
        /\ threads[k] = "thread" /\ LoggedBy(k) >= 1 /\ stats[k].count >= 1
\* Thread i uses the handle of its port_info: it is in its loop, or past
\* it and about to close the handle.
UsesHandle(i) == InLoop(i) \/ wpc[i] = "close"

\* C18: a serial handle is never used after it was released and never by
\* more than one worker.  A thread that issues a read, or is anywhere
\* before its own CloseHandle, holds a handle that is open and that no
\* other thread was given; and a handle main closed after a failed thread
\* creation was given to no thread.
C18_HandleOpenAndOwned ==
    /\ \A i \in Ports :
          UsesHandle(i) =>
              /\ args[i] \in Ports
              /\ hSerial[args[i]] = "open"
              /\ \A j \in Ports \ {i} : args[j] # args[i]
    /\ \A p \in Ports :
          threads[p] = "null" =>
              /\ hSerial[p] = "closed" /\ closes[p] = 1
              /\ \A j \in Ports : args[j] # p

\* main closed the handle of a port whose thread could not be created,
\* one thread has closed its own handle and returned, and a third is
\* issuing a read on its open handle after a frame.
C18_Witness ==
    \E p, k, i \in Ports :
        /\ threads[p] = "null" /\ hSerial[p] = "closed"
        /\ wpc[k] = "done" /\ hSerial[args[k]] = "closed"
        /\ wpc[i] = "read" /\ readings[i] >= 1 /\ hSerial[args[i]] = "open"
====
